---- MODULE Spec2Model ----
(***************************************************************************)
(* Model of the isy scanner (src/src/lexer.rs, src/src/token.rs).          *)
(*                                                                         *)
(* A character is a string; the input is a sequence of characters.  Every  *)
(* character has a UTF-8 width, `pos` is a BYTE offset (it comes from      *)
(* char_indices) while chars().nth(k) counts CHARACTERS, exactly as in     *)
(* the source.  A panic of the Rust code (slice out of order, unwrap of    *)
(* an Err) is the terminal status "panicked": the call returns no token.   *)
(***************************************************************************)
EXTENDS Naturals, Sequences, FiniteSets, TLC

VARIABLES input, lexemes, chars, pos, ch, tokens, status, spans,
          chars_b, pos_b, ch_b, tokens_b, status_b

\* the fields of a second Lexer constructed over the same input text, the
\* tokens it returned and whether a call on it unwound
lexer_b == <<chars_b, pos_b, ch_b, tokens_b, status_b>>

vars == <<input, lexemes, chars, pos, ch, tokens, status, spans, lexer_b>>

(* ------------------------------ bounds --------------------------------- *)
\* number of pieces the input text is assembled from
MaxPieces == 2
\* number of next_token calls made after the first EOF token
MaxTail == 1
\* number of pieces of an input text two lexers are constructed over
MaxPairPieces == 1

(* ---------------------------- characters ------------------------------- *)
\* Option<char>::None
None == "None"

\* a two-byte character (any non-ASCII scalar below U+0800)
Wide == "U+00E9"

\* char::len_utf8 of the characters the model draws from
Width(c) == IF c = Wide THEN 2 ELSE 1

\* 'a'..='z' | 'A'..='Z' | '_'
Letters ==
  { "a", "b", "c", "d", "e", "f", "g", "h", "i", "j", "k", "l", "m",
    "n", "o", "p", "q", "r", "s", "t", "u", "v", "w", "x", "y", "z",
    "A", "B", "C", "D", "E", "F", "G", "H", "I", "J", "K", "L", "M",
    "N", "O", "P", "Q", "R", "S", "T", "U", "V", "W", "X", "Y", "Z",
    "_" }

\* '0'..='9'
Digits == {"0", "1", "2", "3", "4", "5", "6", "7", "8", "9"}

is_letter(c) == c \in Letters

is_digit(c) == c \in Digits

\* value of an ASCII digit
DigitVal(c) ==
  CASE c = "0" -> 0 [] c = "1" -> 1 [] c = "2" -> 2 [] c = "3" -> 3
    [] c = "4" -> 4 [] c = "5" -> 5 [] c = "6" -> 6 [] c = "7" -> 7
    [] c = "8" -> 8 [] c = "9" -> 9

(* ------------------------------ &str ----------------------------------- *)
RECURSIVE ByteOffset(_, _)
\* byte offset at which the (k+1)-th character of s starts (char_indices)
ByteOffset(s, k) == IF k = 0 THEN 0 ELSE ByteOffset(s, k - 1) + Width(s[k])

\* str::len, in bytes
ByteLen(s) == ByteOffset(s, Len(s))

RECURSIVE Walk(_, _, _, _)
\* char_indices walked from character k at byte off up to the first
\* character that starts at or after byte b (or to the end of s)
Walk(s, b, k, off) ==
  IF off >= b \/ k = Len(s) THEN [k |-> k, off |-> off]
  ELSE Walk(s, b, k + 1, off + Width(s[k + 1]))

\* str::is_char_boundary
IsBoundary(s, b) == Walk(s, b, 0, 0).off = b

\* number of characters that start before byte b (b a boundary)
CharsBefore(s, b) == Walk(s, b, 0, 0).k

\* s[a..b] does not panic
SliceOk(s, a, b) == a <= b /\ IsBoundary(s, a) /\ IsBoundary(s, b)

\* s[a..b], a byte range
Slice(s, a, b) == SubSeq(s, CharsBefore(s, a) + 1, CharsBefore(s, b))

\* s.chars().nth(n), n counted in characters from 0
CharsNth(s, n) == IF n < Len(s) THEN s[n + 1] ELSE None

(* ------------------------------ tokens --------------------------------- *)
Tok(k, t, n) == [typ |-> k, text |-> t, num |-> n]

Illegal(c) == Tok("Illegal", <<c>>, 0)
EOF == Tok("EOF", <<>>, 0)
Type(s) == Tok("Type", s, 0)
Ident(s) == Tok("Ident", s, 0)
Int(n) == Tok("Int", <<>>, n)
\* the f32 value is represented by the literal text it is parsed from
Float(s) == Tok("Float", s, 0)
Bool(b) == Tok("Bool", <<>>, IF b THEN 1 ELSE 0)
String(s) == Tok("String", s, 0)
Assign == Tok("Assign", <<>>, 0)
Colon == Tok("Colon", <<>>, 0)
Equal == Tok("Equal", <<>>, 0)
NotEqual == Tok("NotEqual", <<>>, 0)
Bang == Tok("Bang", <<>>, 0)
Minus == Tok("Minus", <<>>, 0)
Plus == Tok("Plus", <<>>, 0)
Asterisk == Tok("Asterisk", <<>>, 0)
Slash == Tok("Slash", <<>>, 0)
Module == Tok("Module", <<>>, 0)

\* the call unwound instead of returning a token
Panic == Tok("Panic", <<>>, 0)

(* ------------------------------ cursor --------------------------------- *)
\* the cursor fields of a Lexer
Cursor(n, p, c) == [chars |-> n, pos |-> p, ch |-> c]

\* next_char that forgets `self.pos = self.input.len()` at the end
next_char_stale(inp, l) ==
  IF l.chars < Len(inp)
    THEN Cursor(l.chars + 1, ByteOffset(inp, l.chars), inp[l.chars + 1])
    ELSE Cursor(l.chars, l.pos, None)

next_char(inp, l) ==
  IF l.chars < Len(inp)
    THEN Cursor(l.chars + 1, ByteOffset(inp, l.chars), inp[l.chars + 1])
    ELSE Cursor(l.chars, ByteLen(inp), None)

peek_char(inp, l) ==
  IF l.pos >= ByteLen(inp) THEN None ELSE CharsNth(inp, l.pos + 1)

new(inp) == next_char(inp, Cursor(0, 0, None))

RECURSIVE skip_whitespace_any(_, _)
\* skip_whitespace that also skips tabs and newlines
skip_whitespace_any(inp, l) ==
  IF l.ch \in {" ", "\t", "\n"}
    THEN skip_whitespace_any(inp, next_char(inp, l))
    ELSE l

RECURSIVE skip_whitespace(_, _)
skip_whitespace(inp, l) ==
  IF l.ch = " " THEN skip_whitespace(inp, next_char(inp, l)) ELSE l

RECURSIVE skip_whitespace_iters(_, _)
\* number of passes of the loop of skip_whitespace from cursor l
skip_whitespace_iters(inp, l) ==
  IF l.ch = " " THEN 1 + skip_whitespace_iters(inp, next_char(inp, l)) ELSE 0

(* ----------------------------- sub-scans ------------------------------- *)
\* result of a sub-scan: the cursor it leaves and the token kind (or Panic)
Scan(l, t) == [lexer |-> l, typ |-> t]

RECURSIVE read_string_loop(_, _, _)
read_string_loop(inp, l, escape) ==
  IF peek_char(inp, l) = None THEN l
  ELSE LET n == next_char(inp, l) IN
       IF n.ch = "\\" /\ ~escape THEN read_string_loop(inp, n, TRUE)
       ELSE IF n.ch = "\"" /\ ~escape THEN n
       ELSE read_string_loop(inp, n, FALSE)

RECURSIVE read_string_iters(_, _, _)
\* number of passes of the while loop of read_string from cursor l
read_string_iters(inp, l, escape) ==
  IF peek_char(inp, l) = None THEN 0
  ELSE LET n == next_char(inp, l) IN
       IF n.ch = "\\" /\ ~escape THEN 1 + read_string_iters(inp, n, TRUE)
       ELSE IF n.ch = "\"" /\ ~escape THEN 1
       ELSE 1 + read_string_iters(inp, n, FALSE)

read_string(inp, l) ==
  LET initial_pos == l.pos + 1
      e == read_string_loop(inp, l, FALSE)
  IN IF SliceOk(inp, initial_pos, e.pos)
       THEN Scan(e, String(Slice(inp, initial_pos, e.pos)))
       ELSE Scan(e, Panic)

RECURSIVE read_number_loop(_, _, _)
read_number_loop(inp, l, is_float) ==
  IF is_digit(l.ch) THEN read_number_loop(inp, next_char(inp, l), is_float)
  ELSE IF ~is_float /\ l.ch = "." /\ is_digit(peek_char(inp, l))
    THEN read_number_loop(inp, next_char(inp, l), TRUE)
  ELSE [lexer |-> l, is_float |-> is_float]

RECURSIVE read_number_iters(_, _, _)
\* number of passes of the loop of read_number that `continue`; the pass
\* that reaches `break` only ends the loop
read_number_iters(inp, l, is_float) ==
  IF is_digit(l.ch)
    THEN 1 + read_number_iters(inp, next_char(inp, l), is_float)
  ELSE IF ~is_float /\ l.ch = "." /\ is_digit(peek_char(inp, l))
    THEN 1 + read_number_iters(inp, next_char(inp, l), TRUE)
  ELSE 0

\* i32::MAX
MaxI32 == 2147483647

RECURSIVE parse_i32_saturating(_, _, _)
\* a parse that clamps to i32::MAX instead of reporting the overflow
parse_i32_saturating(num, k, acc) ==
  IF k > Len(num) THEN [ok |-> Len(num) > 0, val |-> acc]
  ELSE LET d == DigitVal(num[k]) IN
       IF ~is_digit(num[k]) THEN [ok |-> FALSE, val |-> 0]
       ELSE IF acc > (MaxI32 - d) \div 10 THEN [ok |-> TRUE, val |-> MaxI32]
       ELSE parse_i32_saturating(num, k + 1, acc * 10 + d)

RECURSIVE parse_i32(_, _, _)
\* str::parse::<i32> of a digit string: checked multiply-and-add, from digit
\* k on with accumulator acc; Err is the record with ok = FALSE
parse_i32(num, k, acc) ==
  IF k > Len(num) THEN [ok |-> Len(num) > 0, val |-> acc]
  ELSE LET d == DigitVal(num[k]) IN
       IF ~is_digit(num[k]) THEN [ok |-> FALSE, val |-> 0]
       ELSE IF acc > (MaxI32 - d) \div 10 THEN [ok |-> FALSE, val |-> 0]
       ELSE parse_i32(num, k + 1, acc * 10 + d)

read_number(inp, l) ==
  LET initial_pos == l.pos
      e == read_number_loop(inp, l, FALSE)
      num == Slice(inp, initial_pos, e.lexer.pos)
      int_num == parse_i32(num, 1, 0)
  IN IF ~SliceOk(inp, initial_pos, e.lexer.pos) THEN Scan(e.lexer, Panic)
     ELSE IF e.is_float THEN Scan(e.lexer, Float(num))
     ELSE IF int_num.ok THEN Scan(e.lexer, Int(int_num.val))
     ELSE Scan(e.lexer, Panic)

lookup_ident(ident) ==
  IF ident = <<"t", "r", "u", "e">> THEN Bool(TRUE)
  ELSE IF ident = <<"f", "a", "l", "s", "e">> THEN Bool(FALSE)
  ELSE IF ident \in { <<"b", "o", "o", "l">>, <<"i", "n", "t">>,
                      <<"f", "l", "o", "a", "t">>,
                      <<"s", "t", "r", "i", "n", "g">> } THEN Type(ident)
  ELSE Ident(ident)

RECURSIVE read_identifier_letters(_, _)
\* read_identifier whose loop forgets `|| is_digit(self.ch)`
read_identifier_letters(inp, l) ==
  IF is_letter(l.ch)
    THEN read_identifier_letters(inp, next_char(inp, l))
    ELSE l

RECURSIVE read_identifier_loop(_, _)
read_identifier_loop(inp, l) ==
  IF is_letter(l.ch) \/ is_digit(l.ch)
    THEN read_identifier_loop(inp, next_char(inp, l))
    ELSE l

RECURSIVE read_identifier_iters(_, _)
\* number of passes of the while loop of read_identifier from cursor l
read_identifier_iters(inp, l) ==
  IF is_letter(l.ch) \/ is_digit(l.ch)
    THEN 1 + read_identifier_iters(inp, next_char(inp, l))
    ELSE 0

read_identifier(inp, l) ==
  LET initial_pos == l.pos
      e == read_identifier_loop(inp, l)
  IN IF SliceOk(inp, initial_pos, e.pos)
       THEN Scan(e, lookup_ident(Slice(inp, initial_pos, e.pos)))
       ELSE Scan(e, Panic)

(* ----------------------------- next_token ------------------------------ *)
\* the match of next_token on the current character, after skip_whitespace;
\* read_next tells whether the trailing next_char runs
dispatch(inp, l) ==
  LET sym(t) == [lexer |-> l, typ |-> t, read_next |-> TRUE]
      sub(s) == [lexer |-> s.lexer, typ |-> s.typ, read_next |-> FALSE]
  IN CASE l.ch = ":" -> sym(Colon)
       [] l.ch = "+" -> sym(Plus)
       [] l.ch = "-" -> sym(Minus)
       [] l.ch = "/" -> sym(Slash)
       [] l.ch = "*" -> sym(Asterisk)
       [] l.ch = "%" -> sym(Module)
       [] l.ch = "\"" -> LET s == read_string(inp, l)
                         IN [lexer |-> s.lexer, typ |-> s.typ, read_next |-> TRUE]
       [] l.ch = "=" -> sym(IF peek_char(inp, l) = "=" THEN Equal ELSE Assign)
       [] l.ch = "!" -> sym(IF peek_char(inp, l) = "=" THEN NotEqual ELSE Bang)
       [] l.ch = None -> sym(EOF)
       [] OTHER -> IF is_letter(l.ch) THEN sub(read_identifier(inp, l))
                   ELSE IF is_digit(l.ch) THEN sub(read_number(inp, l))
                   ELSE sym(Illegal(l.ch))

\* next_token that never runs its trailing `self.next_char()`
next_token_stay(inp, l) ==
  LET d == dispatch(inp, skip_whitespace(inp, l))
  IN IF d.typ = Panic THEN Scan(d.lexer, Panic) ELSE Scan(d.lexer, d.typ)

\* one call of next_token from cursor l: the cursor left and the token
next_token(inp, l) ==
  LET d == dispatch(inp, skip_whitespace(inp, l))
  IN IF d.typ = Panic THEN Scan(d.lexer, Panic)
     ELSE IF d.read_next THEN Scan(next_char(inp, d.lexer), d.typ)
     ELSE Scan(d.lexer, d.typ)

(* ------------------------------ inputs --------------------------------- *)
\* the pieces an input text is assembled from: every character class the
\* scanner distinguishes, the reserved words (near-reserved words such as
\* true0 and _bool arise by concatenation), the two-character operator, a
\* run of adjacent symbols, a float literal, a string literal with an
\* escaped quote, a string literal of two-byte characters, and the
\* integers i32::MAX and i32::MAX + 1
Pool ==
  { <<" ">>, <<":">>, <<"=">>, <<"!">>, <<"\"">>, <<"\\">>, <<".">>,
    <<"\t">>, <<"\n">>, <<Wide>>, <<"_">>, <<"0">>,
    <<"=", "=">>,
    <<"+", "-", "/", "*", "%">>,
    <<"1", ".", "5">>,
    <<"f", "a", "l", "s", "e", " ", "t", "r", "u", "e">>,
    <<"b", "o", "o", "l", " ", "i", "n", "t", " ", "f", "l", "o", "a", "t",
      " ", "s", "t", "r", "i", "n", "g">>,
    <<"\"", "_", "\\", "\"", " ", "\"">>,
    <<"\"", Wide, Wide, "\"">>,
    <<"2", "1", "4", "7", "4", "8", "3", "6", "4", "7">>,
    <<"2", "1", "4", "7", "4", "8", "3", "6", "4", "8">> }

RECURSIVE Flatten(_)
Flatten(ps) == IF ps = <<>> THEN <<>> ELSE Head(ps) \o Flatten(Tail(ps))

PieceSeqs == UNION { [1..n -> Pool] : n \in 0..MaxPieces }

\* the input texts two lexers are constructed over together
PairPieceSeqs == UNION { [1..n -> Pool] : n \in 0..MaxPairPieces }

\* number of EOF tokens returned so far
EofCount == Cardinality({ i \in DOMAIN tokens : tokens[i] = EOF })

(* --------------------------- state machine ----------------------------- *)
\* Lexer::new over an input text
Init ==
  \E ps \in PieceSeqs :
    /\ lexemes = ps
    /\ input = Flatten(ps)
    /\ LET l == new(Flatten(ps)) IN chars = l.chars /\ pos = l.pos /\ ch = l.ch
    /\ tokens = <<>>
    /\ status = "ok"
    /\ spans = <<>>
    /\ LET l == new(Flatten(ps)) IN
         chars_b = l.chars /\ pos_b = l.pos /\ ch_b = l.ch
    /\ tokens_b = <<>>
    /\ status_b = "ok"

\* one call lexer.next_token() by the caller; spans records, call by call,
\* the offset the cursor had before and after the call
NextToken ==
  /\ status = "ok"
  /\ EofCount <= MaxTail
  /\ LET r == next_token(input, Cursor(chars, pos, ch)) IN
       /\ chars' = r.lexer.chars
       /\ pos' = r.lexer.pos
       /\ ch' = r.lexer.ch
       /\ IF r.typ = Panic
            THEN status' = "panicked" /\ tokens' = tokens
            ELSE status' = "ok" /\ tokens' = Append(tokens, r.typ)
       /\ spans' = Append(spans, <<pos, r.lexer.pos>>)
  /\ UNCHANGED <<input, lexemes, lexer_b>>

Next == NextToken

Spec == Init /\ [][Next]_vars

\* number of EOF tokens the second lexer returned so far
EofCountB == Cardinality({ i \in DOMAIN tokens_b : tokens_b[i] = EOF })

\* a call next_token() on the second lexer that runs on the cursor of the
\* first, as two lexers holding one cursor between them would
NextTokenShared ==
  /\ status_b = "ok"
  /\ EofCountB <= MaxTail
  /\ LET r == next_token(input, Cursor(chars, pos, ch)) IN
       /\ chars' = r.lexer.chars
       /\ pos' = r.lexer.pos
       /\ ch' = r.lexer.ch
       /\ chars_b' = r.lexer.chars
       /\ pos_b' = r.lexer.pos
       /\ ch_b' = r.lexer.ch
       /\ IF r.typ = Panic
            THEN status_b' = "panicked" /\ tokens_b' = tokens_b
            ELSE status_b' = "ok" /\ tokens_b' = Append(tokens_b, r.typ)
  /\ UNCHANGED <<input, lexemes, tokens, status, spans>>

\* one call next_token() on the second lexer
NextTokenB ==
  /\ status_b = "ok"
  /\ EofCountB <= MaxTail
  /\ LET r == next_token(input, Cursor(chars_b, pos_b, ch_b)) IN
       /\ chars_b' = r.lexer.chars
       /\ pos_b' = r.lexer.pos
       /\ ch_b' = r.lexer.ch
       /\ IF r.typ = Panic
            THEN status_b' = "panicked" /\ tokens_b' = tokens_b
            ELSE status_b' = "ok" /\ tokens_b' = Append(tokens_b, r.typ)
  /\ UNCHANGED <<input, lexemes, chars, pos, ch, tokens, status, spans>>

\* the calls on the two lexers interleaved in any order
NextPair == NextToken \/ NextTokenB

\* two calls of Lexer::new over one input text
InitPair ==
  \E ps \in PairPieceSeqs :
    /\ lexemes = ps
    /\ input = Flatten(ps)
    /\ LET l == new(Flatten(ps)) IN chars = l.chars /\ pos = l.pos /\ ch = l.ch
    /\ tokens = <<>>
    /\ status = "ok"
    /\ spans = <<>>
    /\ LET l == new(Flatten(ps)) IN
         chars_b = l.chars /\ pos_b = l.pos /\ ch_b = l.ch
    /\ tokens_b = <<>>
    /\ status_b = "ok"

SpecPair == InitPair /\ [][NextPair]_vars

(* ------------------------- reading the state --------------------------- *)
\* the cursor fields of the scanner
cur == Cursor(chars, pos, ch)

\* the cursor where the match of the next call looks, spaces skipped
at == skip_whitespace(input, cur)

\* the character that follows character k of the input in the text
Following(k) == IF k < Len(input) THEN input[k + 1] ELSE None

\* cursor l stands on character k of the input (past the end: exhausted)
On(l, k) ==
  IF k <= Len(input)
    THEN l = Cursor(k, ByteOffset(input, k - 1), input[k])
    ELSE l = Cursor(Len(input), ByteLen(input), None)

\* the step is a call that returned token t
Returns(t) == status' = "ok" /\ tokens' = Append(tokens, t)

\* the step is a call that unwound without a token
Aborts == status' = "panicked" /\ tokens' = tokens

(* ------------------------------- C1 ------------------------------------ *)
\* C1: once a call has returned EOF, every later call returns EOF again,
\* does not abort, and finds and leaves the cursor exhausted: no current
\* character, offset equal to the byte length of the input.
IdempotentTail ==
  [][ (tokens /= <<>> /\ tokens[Len(tokens)] = EOF) =>
        /\ ch = None /\ pos = ByteLen(input)
        /\ Returns(EOF)
        /\ cur' = cur ]_vars

\* a non-empty input scanned to its end and asked again after the first EOF
IdempotentTailWitness ==
  /\ Len(tokens) >= 3
  /\ tokens[Len(tokens)] = EOF /\ tokens[Len(tokens) - 1] = EOF
  /\ tokens[1] /= EOF
  /\ status = "ok"

(* ------------------------------- C2 ------------------------------------ *)
\* C2: no call aborts; in particular a call whose current character is a
\* double quote that is the last character of the input (it opens a string
\* literal) returns a token instead of unwinding.
TotalOnOpeningQuote ==
  [][ (at.ch = "\"" /\ at.chars = Len(input)) => status' = "ok" ]_vars

(* ------------------------------- C3 ------------------------------------ *)
\* the symbols next_token matches
Symbols == {":", "+", "-", "/", "*", "%", "=", "!"}

Recognized == Letters \cup Digits \cup Symbols \cup {" ", "\""}

\* every digit run is shorter than ten digits, so below 2^31
ShortDigitRuns ==
  \A i \in 1..Len(input) :
    i + 9 <= Len(input) => \E j \in i..(i + 9) : ~is_digit(input[j])

\* C3: on an input of recognized characters only (whose integer literals
\* are in range) no call aborts and no token returned is Illegal, so the
\* scan reaches EOF.
RecognizedScansClean ==
  ((\A i \in 1..Len(input) : input[i] \in Recognized) /\ ShortDigitRuns) =>
     /\ status = "ok"
     /\ \A i \in 1..Len(tokens) : tokens[i].typ /= "Illegal"

(* ------------------------------- C4 ------------------------------------ *)
\* the tokens a piece of the input stands for when it is a space, a lexeme
\* or a run of lexemes of the kinds the claim lists; <<Panic>> for any other
\* piece
LexemeTokens(p) ==
  CASE p = <<" ">> -> <<>>
    [] p = <<":">> -> <<Colon>>
    [] p = <<"=">> -> <<Assign>>
    [] p = <<"+", "-", "/", "*", "%">> ->
         <<Plus, Minus, Slash, Asterisk, Module>>
    [] p = <<"_">> -> <<Ident(p)>>
    [] p = <<"0">> -> <<Int(0)>>
    [] p = <<"1", ".", "5">> -> <<Float(p)>>
    [] p = <<"f", "a", "l", "s", "e", " ", "t", "r", "u", "e">> ->
         <<Bool(FALSE), Bool(TRUE)>>
    [] p = <<"b", "o", "o", "l", " ", "i", "n", "t", " ",
             "f", "l", "o", "a", "t", " ", "s", "t", "r", "i", "n", "g">> ->
         <<Type(SubSeq(p, 1, 4)), Type(SubSeq(p, 6, 8)),
           Type(SubSeq(p, 10, 14)), Type(SubSeq(p, 16, 21))>>
    [] p = <<"\"", "_", "\\", "\"", " ", "\"">> ->
         <<String(SubSeq(p, 2, 5))>>
    [] p = <<"\"", Wide, Wide, "\"">> -> <<String(<<Wide, Wide>>)>>
    [] p = <<"2", "1", "4", "7", "4", "8", "3", "6", "4", "7">> ->
         <<Int(MaxI32)>>
    [] OTHER -> <<Panic>>

\* pieces that are symbols of the claim's list
SymbolPieces == { <<":">>, <<"=">>, <<"+", "-", "/", "*", "%">> }

\* the input is a sequence of lexemes: every piece is one, two neighbours
\* are separated by a space unless both are symbols, and no '=' is
\* directly followed by another '='
WellSeparated ==
  /\ \A i \in 1..Len(lexemes) : LexemeTokens(lexemes[i]) /= <<Panic>>
  /\ \A i \in 1..(Len(lexemes) - 1) :
       \/ lexemes[i] = <<" ">>
       \/ lexemes[i + 1] = <<" ">>
       \/ /\ lexemes[i] \in SymbolPieces
          /\ lexemes[i + 1] \in SymbolPieces
          /\ ~(lexemes[i] = <<"=">> /\ lexemes[i + 1] = <<"=">>)

RECURSIVE ExpectedTokens(_)
ExpectedTokens(ps) ==
  IF ps = <<>> THEN <<>>
  ELSE LexemeTokens(Head(ps)) \o ExpectedTokens(Tail(ps))

\* C4: on an input that is a sequence of space-separated lexemes the calls
\* return one token per lexeme, in input order and of the lexeme's kind,
\* then EOF; spaces give no token and adjacent symbols give separate tokens.
LexemesInOrder ==
  WellSeparated =>
    /\ status = "ok"
    /\ LET expected == ExpectedTokens(lexemes) IN
       \A i \in 1..Len(tokens) :
         tokens[i] = (IF i <= Len(expected) THEN expected[i] ELSE EOF)

(* ----------------------------- C5, C9 ---------------------------------- *)
\* the quote at index k is not escaped for the literal opened at index i:
\* the run of backslashes that ends right before it has even length
Unescaped(i, k) ==
  /\ input[k] = "\""
  /\ LET n == CHOOSE n \in 0..(k - 1 - i) :
                /\ \A j \in (k - n)..(k - 1) : input[j] = "\\"
                /\ (n = k - 1 - i \/ input[k - n - 1] /= "\\")
     IN n % 2 = 0

\* the unescaped quotes after the opening quote at index i
Closers(i) == { k \in (i + 1)..Len(input) : Unescaped(i, k) }

Min(S) == CHOOSE x \in S : \A y \in S : x <= y

\* C5: a call on an opening quote that has a later unescaped quote returns
\* the String of exactly the characters strictly between the two, the
\* backslashes kept, and leaves the cursor on the character right after
\* the closing quote.
TerminatedString ==
  [][ (at.ch = "\"" /\ Closers(at.chars) /= {}) =>
        LET i == at.chars
            c == Min(Closers(i))
        IN /\ Returns(String(SubSeq(input, i + 1, c - 1)))
           /\ On(cur', c + 1) ]_vars

\* C9: a call on an opening quote with no later unescaped quote does not
\* abort and returns the String of every character after the opening quote
\* up to the end of the input; the cursor is then exhausted, so the
\* following call returns EOF.
UnterminatedString ==
  [][ (at.ch = "\"" /\ Closers(at.chars) = {}) =>
        /\ Returns(String(SubSeq(input, at.chars + 1, Len(input))))
        /\ On(cur', Len(input) + 1) ]_vars

(* ------------------------------- C6 ------------------------------------ *)
\* C6: a call on '=' (or '!') returns Equal (NotEqual) when the character
\* that follows in the input is '=' and Assign (Bang) otherwise, and
\* advances the cursor by exactly that one character, so the second '=' of
\* "==" is scanned again by the following call.
OperatorLookahead ==
  [][ at.ch \in {"=", "!"} =>
        LET i == at.chars
            eq == Following(i) = "="
        IN /\ Returns(IF at.ch = "="
                        THEN (IF eq THEN Equal ELSE Assign)
                        ELSE (IF eq THEN NotEqual ELSE Bang))
           /\ On(cur', i + 1) ]_vars

(* ------------------------------- C7 ------------------------------------ *)
\* last index of the maximal run of characters of S that starts at index k
\* (k - 1 when the character at k is not in S)
RunEnd(k, S) ==
  CHOOSE e \in (k - 1)..Len(input) :
    /\ \A j \in k..e : input[j] \in S
    /\ (e = Len(input) \/ input[e + 1] \notin S)

\* C7: a call on a digit that returns a token has consumed the maximal run
\* of digits, then a '.' exactly when a digit follows that '.', then the
\* digits after it; the token is Float exactly when the '.' was consumed,
\* Int otherwise, and the cursor is left on the first character after.
NumberShape ==
  [][ (is_digit(at.ch) /\ tokens' /= tokens) =>
        LET i == at.chars
            r == RunEnd(i, Digits)
            dot == /\ Following(r) = "."
                   /\ r + 2 <= Len(input)
                   /\ is_digit(input[r + 2])
            e == IF dot THEN RunEnd(r + 2, Digits) ELSE r
        IN /\ Len(tokens') = Len(tokens) + 1
           /\ tokens'[Len(tokens')].typ = (IF dot THEN "Float" ELSE "Int")
           /\ dot => tokens'[Len(tokens')] = Float(SubSeq(input, i, e))
           /\ On(cur', e + 1) ]_vars

(* ------------------------------- C8 ------------------------------------ *)
\* C8: a call on a letter or underscore consumes the maximal run of
\* letters, underscores and digits, and the whole word decides the token:
\* Bool for exactly true / false, Type carrying the word for exactly bool /
\* int / float / string, Ident carrying the word for any other word.
IdentifierClassified ==
  [][ is_letter(at.ch) =>
        LET i == at.chars
            e == RunEnd(i, Letters \cup Digits)
            w == SubSeq(input, i, e)
            types == { <<"b", "o", "o", "l">>, <<"i", "n", "t">>,
                       <<"f", "l", "o", "a", "t">>,
                       <<"s", "t", "r", "i", "n", "g">> }
            bools == { <<"t", "r", "u", "e">>, <<"f", "a", "l", "s", "e">> }
        IN /\ On(cur', e + 1)
           /\ w = <<"t", "r", "u", "e">> => Returns(Bool(TRUE))
           /\ w = <<"f", "a", "l", "s", "e">> => Returns(Bool(FALSE))
           /\ w \in types => Returns(Type(w))
           /\ w \notin (types \cup bools) => Returns(Ident(w)) ]_vars

\* false was returned as Bool and the keyword true followed by a digit as
\* the single Ident true0
IdentifierClassifiedWitness ==
  /\ status = "ok"
  /\ tokens = << Bool(FALSE), Ident(<<"t", "r", "u", "e", "0">>), EOF >>

(* ------------------------------- C10 ----------------------------------- *)
\* a digit string without its leading zeros
Significant(t) ==
  LET z == CHOOSE n \in 0..Len(t) :
             /\ \A j \in 1..n : t[j] = "0"
             /\ (n = Len(t) \/ t[n + 1] /= "0")
  IN SubSeq(t, z + 1, Len(t))

\* the decimal digits of 2^31 - 1
MaxI32Digits == <<"2", "1", "4", "7", "4", "8", "3", "6", "4", "7">>

\* the digit string t denotes a value of at most 2^31 - 1
InRange(t) ==
  LET s == Significant(t) IN
    \/ Len(s) < Len(MaxI32Digits)
    \/ /\ Len(s) = Len(MaxI32Digits)
       /\ ~\E k \in 1..Len(s) :
             /\ \A j \in 1..(k - 1) : s[j] = MaxI32Digits[j]
             /\ DigitVal(s[k]) > DigitVal(MaxI32Digits[k])

RECURSIVE DecValue(_)
\* the number a digit string denotes
DecValue(t) ==
  IF t = <<>> THEN 0
  ELSE DecValue(SubSeq(t, 1, Len(t) - 1)) * 10 + DigitVal(t[Len(t)])

\* C10: a call on a digit that consumes no '.' (the cursor stops right
\* after the digit run) returns Int of exactly the value of the digit run
\* when that value is at most 2^31 - 1, and otherwise aborts without any
\* token: never Illegal, never a wrapped or truncated Int.
IntegerOverflowFatal ==
  [][ (is_digit(at.ch) /\ On(cur', RunEnd(at.chars, Digits) + 1)) =>
        LET t == SubSeq(input, at.chars, RunEnd(at.chars, Digits))
        IN IF InRange(t) THEN Returns(Int(DecValue(t))) ELSE Aborts ]_vars

\* after the symbols before it were returned, the literal i32::MAX + 1
\* made the call abort with the cursor past its digits
IntegerOverflowFatalWitness ==
  /\ status = "panicked"
  /\ tokens = << Plus, Minus, Slash, Asterisk, Module >>
  /\ SubSeq(input, 6, Len(input)) =
       <<"2", "1", "4", "7", "4", "8", "3", "6", "4", "8">>
  /\ ch = None

(* ------------------------------- C11 ----------------------------------- *)
\* the cursor that stands on character k of the input (exhausted past the
\* end)
Standing(k) ==
  IF k <= Len(input)
    THEN Cursor(k, ByteOffset(input, k - 1), input[k])
    ELSE Cursor(Len(input), ByteLen(input), None)

\* C11: only ' ' is skipped: a call whose current character is a tab or a
\* newline returns Illegal carrying that character and moves one character
\* on, while a call whose current character is a space gives no token for
\* the run of spaces: it does what a call started on the first character
\* after the run does.
OnlySpaceSkipped ==
  [][ /\ ch \in {"\t", "\n"} =>
           Returns(Illegal(ch)) /\ On(cur', chars + 1)
      /\ ch = " " =>
           LET r == next_token(input, Standing(RunEnd(chars, {" "}) + 1))
           IN /\ cur' = r.lexer
              /\ IF r.typ = Panic THEN Aborts ELSE Returns(r.typ) ]_vars

\* the space before the tab was skipped without a token and the tab came
\* back as Illegal
OnlySpaceSkippedWitness ==
  /\ input = <<" ", "\t">>
  /\ tokens = <<Illegal("\t"), EOF>>
  /\ status = "ok"

(* ------------------------------- C12 ----------------------------------- *)
RECURSIVE Stream(_, _, _)
\* the tokens that at most n successive calls return from cursor l over the
\* text inp, up to and including the first EOF; <<Panic>> marks an abort
Stream(inp, l, n) ==
  IF n = 0 THEN <<>>
  ELSE LET r == next_token(inp, l) IN
       IF r.typ = Panic \/ r.typ = EOF THEN <<r.typ>>
       ELSE <<r.typ>> \o Stream(inp, r.lexer, n - 1)

\* the characters next_token does not classify
Unclassified(c) ==
  c /= None /\ c /= " " /\ c /= "\"" /\ c \notin Symbols
            /\ ~is_letter(c) /\ ~is_digit(c)

\* C12: a call on a character that is no space, symbol, quote, letter,
\* underscore or digit returns Illegal carrying that character and moves
\* the cursor one character on, and the calls after it return what a fresh
\* scanner over the rest of the input returns.
IllegalRecoverable ==
  [][ Unclassified(at.ch) =>
        LET rest == SubSeq(input, at.chars + 1, Len(input)) IN
        /\ Returns(Illegal(at.ch))
        /\ On(cur', at.chars + 1)
        /\ Stream(input, cur', Len(input) + 1)
             = Stream(rest, new(rest), Len(input) + 1) ]_vars

(* ------------------------------- C13 ----------------------------------- *)
\* the calls during which the cursor passed byte offset b
PassedIn(b) == { i \in 1..Len(spans) : spans[i][1] <= b /\ b < spans[i][2] }

\* the cursor is consistent with the input text
CursorConsistent ==
  /\ pos <= ByteLen(input)
  /\ (ch = None) <=> (pos = ByteLen(input))
  /\ ch /= None =>
       IsBoundary(input, pos) /\ ch = input[CharsBefore(input, pos) + 1]

CharsLeft(l) == IF l.ch = None THEN 0 ELSE Len(input) - l.chars + 1

PeekPositionCorrect ==
  ch /= None => peek_char(input, cur) = Following(chars)

(* ------------------------------- C16 ----------------------------------- *)
\* the shorter of two lengths
Shorter(a, b) == IF a <= b THEN a ELSE b

====
